---- MODULE Spec2Model ----
(***************************************************************************)
(* A model of twitchbot's plugin registry and event dispatch               *)
(* (src/twitchbot/modloader.py) and of its poll commands                   *)
(* (src/twitchbot/builtin_commands/poll_commands.py).                      *)
(*                                                                         *)
(* The two files share no state. RegistrySpec is the registry alone,       *)
(* DispatchSpec the registry with an event dispatch in progress, ModSpec   *)
(* both with mods of any properties, and LoadSpec the registry with the    *)
(* loader; PollSpec is the commands that start polls and vote, QuerySpec   *)
(* the commands that start, list and show polls.                           *)
(***************************************************************************)
EXTENDS Integers, Sequences, FiniteSets, TLC

(***************************************************************************)
(* Bounds of the model.                                                    *)
(***************************************************************************)
\* Mod instances 1..NumMods; the last one carries the name of the first.
NumMods == 3
\* Polls started in one run.
MaxPolls == 2
\* Entries (live or deleted) the registry's table holds before an insert
\* has to resize it.
MaxEntries == 3
\* Registry changes made while one dispatch is in progress.
MaxMuts == 1

(***************************************************************************)
(* Mod instances (class Mod, lines 19-95).                                 *)
(***************************************************************************)
Mods == 1 .. NumMods

\* Mod.name is a class attribute: distinct instances may carry the same name.
ModName(m) == IF m = NumMods THEN 1 ELSE m

Events == {"on_connected", "on_channel_joined"}

\* getattr(mod, event.value, _missing_function): whether the registered
\* object has an attribute of the event's name.
HasHook(m, e) == ~(m = 2 /\ e = "on_channel_joined")

VARIABLES
    mods,            \* the dict `mods`: its entries in insertion order, 0 = a deleted entry
    can_register,    \* what each instance's can_register property reports
    can_unregister,  \* what each instance's can_unregister property reports
    call,            \* the register_mod / unregister_mod call made by the last step
    pc,              \* trigger_mod_event: "idle", "loop", "hook", "returned", "raised"
    event,           \* the event of the dispatch
    it,              \* the iterator of mods.values(): [pos, used, len]
    cur,             \* `mod`, the loop variable (0 before the first iteration)
    running,         \* the hooks of the dispatch that were started and did not finish
    invoked,         \* the mods whose hook the dispatch has called, in order
    raisedBy,        \* the mods whose hook raised an Exception the dispatch caught
    exc,             \* the exception trigger_mod_event raised to its caller
    hung,            \* the hook in progress never completes
    muts,            \* who changed the registry during the dispatch, in order
    stayed,          \* the mods registered since the dispatch began
    load,            \* the load_mods_from_directory call made by the last step
    polls,           \* the polls started so far, by id
    last,            \* what the command run by the last step did
    msgtext,         \* msg[1:], the text the startpoll of the last step parsed
    listing          \* the reply of the listpolls of the last step

modVars == <<mods, can_register, can_unregister, call, pc, event, it, cur,
             running, invoked, raisedBy, exc, hung, muts, stayed, load>>

pollVars == <<polls, last, msgtext, listing>>

vars == <<modVars, pollVars>>

(***************************************************************************)
(* The dict `mods` (line 98).                                              *)
(***************************************************************************)
\* The values of the dict, in iteration order.
Live(entries) == SelectSeq(entries, LAMBDA e : e # 0)

LiveSet(entries) == {entries[k] : k \in {j \in DOMAIN entries : entries[j] # 0}}

\* `name in mods`
NameIn(n, entries) == \E k \in DOMAIN entries : entries[k] # 0 /\ ModName(entries[k]) = n

\* mods[mod.name] = mod for a name that is not a key: a new entry at the end.
\* A table that is full is resized first, which drops the deleted entries;
\* `resize` says whether this insert found the table full.
DictInsert(entries, m, resize) ==
    Append(IF resize \/ Len(entries) >= MaxEntries THEN Live(entries) ELSE entries, m)

\* del mods[name]: the entry stays in the table, marked deleted.
DictDelete(entries, n) ==
    [k \in DOMAIN entries |->
        IF entries[k] # 0 /\ ModName(entries[k]) = n THEN 0 ELSE entries[k]]

\* The record of a call: its argument, what it returned ("raised" when the
\* lifecycle callback raised), the instance whose callback it invoked, the
\* instances it put into and took out of the registry, and whether the
\* argument, and its name, were registered when the call was made.
NoCall == [op |-> "none", mod |-> 0, result |-> "none", callback |-> 0,
           added |-> {}, removed |-> {}, wasIn |-> FALSE, nameWasIn |-> FALSE]

CallRecord(op, m, result, callback, before, after) ==
    [op |-> op, mod |-> m, result |-> result, callback |-> callback,
     added |-> LiveSet(after) \ LiveSet(before),
     removed |-> LiveSet(before) \ LiveSet(after),
     wasIn |-> m \in LiveSet(before),
     nameWasIn |-> NameIn(ModName(m), before)]

\* The record of a load_mods_from_directory call: the directory, how the
\* call ended ("returned", "ImportError", or "raised" when a register()
\* raised), the classes it instantiated, in order, and the instances that
\* were registered when the call was made.
NoLoad == [dir |-> <<>>, result |-> "none", instantiated |-> <<>>, before |-> {}]

(***************************************************************************)
(* register_mod and unregister_mod (lines 101-129).                        *)
(***************************************************************************)
\* A register_mod that does not look for the name in the registry.
RegisterRefusedNoNameTest(m, entries) == ~can_register[m]

\* Line 107: the conditions under which register_mod returns False.
RegisterRefused(m, entries) == NameIn(ModName(m), entries) \/ ~can_register[m]

\* Line 121: unregister_mod's first return False.
UnregisterRefused(m) == ~can_unregister[m]

\* Line 124: the test that decides whether an entry is removed.
UnregisterFound(m, entries) == NameIn(ModName(m), entries)

\* A call is made by the hook the dispatch is awaiting, or by other code
\* of the event loop: that runs when no dispatch is executing, which is
\* before and after one, and while its hook is suspended.
CallAllowed(who) ==
    /\ who = "hook" => pc = "hook" /\ ~hung /\ HasHook(cur, event)
    /\ who = "other" => pc \in {"idle", "hook"}
    /\ pc = "hook" => Len(muts) < MaxMuts

Touch(who, changed) == IF changed /\ pc = "hook" THEN Append(muts, who) ELSE muts

register_mod(m, who) ==
    /\ CallAllowed(who)
    /\ \E raises \in BOOLEAN, resize \in BOOLEAN :
        LET refused == RegisterRefused(m, mods)
        IN  /\ mods' = IF refused THEN mods ELSE DictInsert(mods, m, resize)
            /\ call' = CallRecord("register_mod", m,
                                   IF refused THEN "False"
                                   ELSE IF raises THEN "raised" ELSE "True",
                                   IF refused THEN 0 ELSE m, mods, mods')
            /\ muts' = Touch(who, ~refused)
    /\ UNCHANGED <<can_register, can_unregister, pc, event, it, cur, running,
                   invoked, raisedBy, exc, hung, stayed>>
    /\ load' = NoLoad
    /\ UNCHANGED pollVars

unregister_mod(m, who) ==
    /\ CallAllowed(who)
    /\ \E raises \in BOOLEAN :
        LET removes == ~UnregisterRefused(m) /\ UnregisterFound(m, mods)
        IN  /\ mods' = IF removes THEN DictDelete(mods, ModName(m)) ELSE mods
            /\ call' = CallRecord("unregister_mod", m,
                                   IF ~removes THEN "False"
                                   ELSE IF raises THEN "raised" ELSE "True",
                                   IF removes THEN m ELSE 0, mods, mods')
            /\ muts' = Touch(who, removes)
            /\ stayed' = stayed \cap LiveSet(mods')
    /\ UNCHANGED <<can_register, can_unregister, pc, event, it, cur, running,
                   invoked, raisedBy, exc, hung>>
    /\ load' = NoLoad
    /\ UNCHANGED pollVars

(***************************************************************************)
(* trigger_mod_event (lines 132-146).                                      *)
(***************************************************************************)
NoIter == [pos |-> 1, used |-> 0, len |-> 0]

\* Line 136, `mods.values()` and the iterator the for statement makes of it.
trigger_mod_event(e) ==
    /\ pc = "idle"
    /\ pc' = "loop"
    /\ event' = e
    /\ it' = [pos |-> 1, used |-> Len(Live(mods)), len |-> Len(Live(mods))]
    /\ cur' = 0
    /\ running' = {}
    /\ invoked' = <<>>
    /\ raisedBy' = {}
    /\ exc' = "none"
    /\ hung' = FALSE
    /\ muts' = <<>>
    /\ stayed' = LiveSet(mods)
    /\ call' = NoCall
    /\ UNCHANGED <<mods, can_register, can_unregister>>
    /\ load' = NoLoad
    /\ UNCHANGED pollVars

\* The first entry at or after the iterator's position that is not deleted
\* (Len + 1 when there is none).
NextLive(entries, pos) ==
    LET ks == {k \in DOMAIN entries : k >= pos /\ entries[k] # 0}
    IN  IF ks = {} THEN Len(entries) + 1
        ELSE CHOOSE k \in ks : \A j \in ks : k <= j

\* What the iterator's next step does: the dict raises RuntimeError when
\* its size is not the size the iteration began with, or when it yields
\* more values than it held then; it stops at the end of the table.
IterStep(entries, i) ==
    IF i.used # Len(Live(entries)) THEN "RuntimeError"
    ELSE IF NextLive(entries, i.pos) > Len(entries) THEN "StopIteration"
    ELSE IF i.len = 0 THEN "RuntimeError"
    ELSE "value"

\* A loop that starts the hook and does not await it.
PcHookNotAwaited == "loop"

\* Line 138: the hook call is awaited, so the loop goes on only when the
\* hook has finished.
PcAfterHookCall == "hook"

\* Lines 136-138: the for statement takes the next mod and calls its hook.
LoopNext ==
    /\ pc = "loop"
    /\ LET step == IterStep(mods, it)
           k == NextLive(mods, it.pos)
       IN  \/ /\ step = "RuntimeError"
              /\ pc' = "raised"
              /\ exc' = "RuntimeError"
              /\ UNCHANGED <<it, cur, running, invoked>>
           \/ /\ step = "StopIteration"
              /\ pc' = "returned"
              /\ UNCHANGED <<it, cur, running, invoked, exc>>
           \/ /\ step = "value"
              /\ it' = [it EXCEPT !.pos = k + 1, !.len = it.len - 1]
              /\ cur' = mods[k]
              /\ running' = running \cup {mods[k]}
              /\ invoked' = Append(invoked, mods[k])
              /\ pc' = PcAfterHookCall
              /\ UNCHANGED exc
    /\ call' = NoCall
    /\ UNCHANGED <<mods, can_register, can_unregister, event, raisedBy, hung,
                   muts, stayed>>
    /\ load' = NoLoad
    /\ UNCHANGED pollVars

\* A loop without the try statement.
CaughtNothing(outcome) == FALSE

\* Line 139: `except Exception` catches the exceptions that derive from
\* Exception, and no other BaseException.
Caught(outcome) == outcome = "Exception"

HookOutcomes(m, e) ==
    IF HasHook(m, e) THEN {"return", "Exception", "BaseException"} ELSE {"return"}

\* Lines 137-146: the awaited hook finishes, by returning or by raising.
HookEnd ==
    /\ pc = "hook"
    /\ ~hung
    /\ \E outcome \in HookOutcomes(cur, event) :
        /\ running' = running \ {cur}
        /\ IF outcome = "return" \/ Caught(outcome)
           THEN /\ pc' = "loop"
                /\ exc' = exc
                /\ raisedBy' = IF outcome = "return" THEN raisedBy
                               ELSE raisedBy \cup {cur}
           ELSE /\ pc' = "raised"
                /\ exc' = outcome
                /\ raisedBy' = raisedBy
    /\ call' = NoCall
    /\ UNCHANGED <<mods, can_register, can_unregister, event, it, cur, invoked,
                   hung, muts, stayed>>
    /\ load' = NoLoad
    /\ UNCHANGED pollVars

\* Line 138: a hook that never completes; no timeout is applied to it.
HookHang ==
    /\ pc = "hook"
    /\ ~hung
    /\ HasHook(cur, event)
    /\ hung' = TRUE
    /\ call' = NoCall
    /\ UNCHANGED <<mods, can_register, can_unregister, pc, event, it, cur,
                   running, invoked, raisedBy, exc, muts, stayed>>
    /\ load' = NoLoad
    /\ UNCHANGED pollVars

\* Line 132: the coroutine has ended and its caller goes on.
Finish ==
    /\ pc \in {"returned", "raised"}
    /\ pc' = "idle"
    /\ event' = "on_connected"
    /\ it' = NoIter
    /\ cur' = 0
    /\ running' = {}
    /\ invoked' = <<>>
    /\ raisedBy' = {}
    /\ exc' = "none"
    /\ hung' = FALSE
    /\ muts' = <<>>
    /\ stayed' = {}
    /\ call' = NoCall
    /\ UNCHANGED <<mods, can_register, can_unregister>>
    /\ load' = NoLoad
    /\ UNCHANGED pollVars

(***************************************************************************)
(* load_mods_from_directory (lines 154-166).                               *)
(*                                                                         *)
(* A directory is the sequence of its .py files. A file is what importing  *)
(* it gives: an ImportError (broken), or a module whose __dict__ holds     *)
(* objects in the order of their definition: ModClass, the base class,     *)
(* which a mod file imports; Function, an object that is no class;         *)
(* OtherClass, a class that is no subclass of Mod; and Subclass(c) for c   *)
(* in Mods, a subclass of Mod whose instances carry ModName(c) and the     *)
(* properties of c. The model holds one instance of each subclass: obj()   *)
(* is instance c.                                                          *)
(***************************************************************************)
ModClass == [kind |-> "Mod", of |-> 0]

Function == [kind |-> "function", of |-> 0]

OtherClass == [kind |-> "class", of |-> 0]

Subclass(c) == [kind |-> "subclass", of |-> c]

File(objects) == [broken |-> FALSE, objects |-> objects]

BrokenFile == [broken |-> TRUE, objects |-> <<>>]

\* A loader that skips the subclasses of Mod too.
SkippedAlways(obj) == TRUE

\* Line 163: not isclass(obj) or not issubclass(obj, Mod) or obj is Mod.
Skipped(obj) == obj.kind = "function" \/ obj.kind = "class" \/ obj.kind = "Mod"

\* Lines 161-166: the loop over the objects of one module. `raiser` is the
\* instance whose register() raises (0: none does): the exception leaves
\* register_mod and the loader.
RECURSIVE LoadObjects(_, _, _, _)
LoadObjects(st, objs, raiser, resize) ==
    IF objs = <<>> \/ st.result # "returned" THEN st
    ELSE IF Skipped(Head(objs)) THEN LoadObjects(st, Tail(objs), raiser, resize)
    ELSE LET obj == Head(objs).of
             refused == RegisterRefused(obj, st.entries)
         IN  LoadObjects(
                 [entries |-> IF refused THEN st.entries
                              ELSE DictInsert(st.entries, obj, resize),
                  instantiated |-> Append(st.instantiated, obj),
                  result |-> IF ~refused /\ obj = raiser THEN "raised" ELSE "returned"],
                 Tail(objs), raiser, resize)

\* Lines 158-160: the loop over the files; import_module raises for a file
\* that cannot be imported.
RECURSIVE LoadFiles(_, _, _, _)
LoadFiles(st, files, raiser, resize) ==
    IF files = <<>> \/ st.result # "returned" THEN st
    ELSE IF Head(files).broken THEN [st EXCEPT !.result = "ImportError"]
    ELSE LoadFiles(LoadObjects(st, Head(files).objects, raiser, resize),
                   Tail(files), raiser, resize)

\* Lines 154-166. The function does not await: it runs as one step.
load_mods_from_directory(dir) ==
    /\ CallAllowed("other")
    /\ \E raiser \in Mods \cup {0}, resize \in BOOLEAN :
        LET end == LoadFiles([entries |-> mods, instantiated |-> <<>>,
                              result |-> "returned"], dir, raiser, resize)
        IN  /\ mods' = end.entries
            /\ load' = [dir |-> dir, result |-> end.result,
                        instantiated |-> end.instantiated, before |-> LiveSet(mods)]
            /\ muts' = Touch("other", LiveSet(end.entries) # LiveSet(mods))
    /\ call' = NoCall
    /\ UNCHANGED <<can_register, can_unregister, pc, event, it, cur, running,
                   invoked, raisedBy, exc, hung, stayed>>
    /\ UNCHANGED pollVars

\* The directories the loader is given.
Directories == {
    <<>>,
    <<File(<<ModClass, Function, Subclass(1), Subclass(2)>>)>>,
    <<File(<<ModClass, OtherClass, Subclass(1)>>), File(<<ModClass, Subclass(NumMods)>>)>>,
    <<File(<<ModClass, Subclass(2)>>),
      File(<<ModClass, Subclass(2), Subclass(NumMods), Function>>)>>,
    <<File(<<ModClass, Subclass(1)>>), BrokenFile, File(<<ModClass, Subclass(2)>>)>> }

(***************************************************************************)
(* Strings: sequences of characters. "sup2" stands for the character       *)
(* SUPERSCRIPT TWO, a digit to str.isdigit that int() does not accept.     *)
(***************************************************************************)
AsciiDigits == {"0", "1", "2", "3", "4", "5", "6", "7", "8", "9"}

OtherDigits == {"sup2"}

\* str.isdigit (lines 60, 77, 104): the string is not empty and all its
\* characters are digits.
isdigit(str) ==
    /\ str # <<>>
    /\ \A k \in DOMAIN str : str[k] \in AsciiDigits \cup OtherDigits

DigitValue(c) ==
    CASE c = "0" -> 0 [] c = "1" -> 1 [] c = "2" -> 2 [] c = "3" -> 3
      [] c = "4" -> 4 [] c = "5" -> 5 [] c = "6" -> 6 [] c = "7" -> 7
      [] c = "8" -> 8 [] c = "9" -> 9

\* int(str) (lines 63, 79, 107) raises ValueError for a string that is not
\* a decimal literal.
IntRaises(str) == str = <<>> \/ \E k \in DOMAIN str : str[k] \notin AsciiDigits

RECURSIVE int(_)
int(str) ==
    IF str = <<>> THEN 0
    ELSE 10 * int(SubSeq(str, 1, Len(str) - 1)) + DigitValue(str[Len(str)])

(***************************************************************************)
(* The poll subsystem, which the commands call (PollData and the lookup    *)
(* functions).                                                             *)
(***************************************************************************)
Channels == {"chanA", "chanB"}

Voters == {"alice", "bob"}

PollIds == 1 .. Len(polls)

\* get_active_channel_polls(channel): the ids of the channel's active
\* polls, in the order they were started.
RECURSIVE ActiveUpTo(_, _, _)
ActiveUpTo(ps, ch, n) ==
    IF n = 0 THEN <<>>
    ELSE LET rest == ActiveUpTo(ps, ch, n - 1)
         IN  IF ps[n].active /\ ps[n].channel = ch THEN Append(rest, n) ELSE rest

get_active_channel_polls(ps, ch) == ActiveUpTo(ps, ch, Len(ps))

get_active_channel_poll_count(ps, ch) == Len(get_active_channel_polls(ps, ch))

\* get_channel_poll_by_id(channel, id): the id of the channel's active poll
\* of that id, 0 (None) when there is none.
get_channel_poll_by_id(ps, ch, id) ==
    IF id \in 1 .. Len(ps) /\ ps[id].active /\ ps[id].channel = ch THEN id ELSE 0

\* poll.is_valid_vote(choice): the choice ids of a poll are 1 .. the number
\* of its choices.
is_valid_vote(p, choice) == choice \in 1 .. Len(p.choices)

\* poll.has_already_voted(voter)
has_already_voted(p, voter) == p.votes[voter] # 0

\* poll.add_vote(voter, choice): the poll maps the voter to the choice.
add_vote(p, voter, choice) == [p EXCEPT !.votes[voter] = choice]

\* PollData(channel, owner, title, seconds, *choices) and poll.start().
NewPoll(ch, title, choices) ==
    [channel |-> ch, title |-> title, choices |-> choices,
     active |-> TRUE, votes |-> [v \in Voters |-> 0]]

\* A poll whose time is over: no lookup finds it, and the model keeps
\* nothing of it.
EndedPoll ==
    [channel |-> "", title |-> <<>>, choices |-> <<>>,
     active |-> FALSE, votes |-> [v \in Voters |-> 0]]

(***************************************************************************)
(* vote (lines 31-79).                                                     *)
(***************************************************************************)
Outcome(kind, reason, poll) == [kind |-> kind, reason |-> reason, poll |-> poll]

\* Lines 76-79, _cast_to_int_or_error.
CastRaises(value) == ~isdigit(value)

\* A vote command that does not ask the poll whether the voter has voted.
VoteOnPollNoVotedTest(ps, p, author, choice) ==
    IF ~isdigit(choice) THEN Outcome("InvalidArgumentsError", "not a valid number", p)
    ELSE IF IntRaises(choice) THEN Outcome("ValueError", "int", p)
    ELSE IF ~is_valid_vote(ps[p], int(choice))
         THEN Outcome("reply", "not a valid choice id", p)
    ELSE Outcome("add_vote", "", p)

\* A vote command that takes any string for a choice id.
VoteOnPollNoDigitTest(ps, p, author, choice) ==
    IF IntRaises(choice) THEN Outcome("ValueError", "int", p)
    ELSE IF ~is_valid_vote(ps[p], int(choice))
         THEN Outcome("reply", "not a valid choice id", p)
    ELSE IF has_already_voted(ps[p], author) THEN Outcome("return", "", p)
    ELSE Outcome("add_vote", "", p)

\* A vote command that asks first whether the voter has voted.
VoteOnPollVotedTestFirst(ps, p, author, choice) ==
    IF has_already_voted(ps[p], author) THEN Outcome("return", "", p)
    ELSE IF ~isdigit(choice) THEN Outcome("InvalidArgumentsError", "not a valid number", p)
    ELSE IF IntRaises(choice) THEN Outcome("ValueError", "int", p)
    ELSE IF ~is_valid_vote(ps[p], int(choice))
         THEN Outcome("reply", "not a valid choice id", p)
    ELSE Outcome("add_vote", "", p)

\* A vote command that does not ask the poll whether the choice is valid.
VoteOnPollNoValidTest(ps, p, author, choice) ==
    IF ~isdigit(choice) THEN Outcome("InvalidArgumentsError", "not a valid number", p)
    ELSE IF IntRaises(choice) THEN Outcome("ValueError", "int", p)
    ELSE IF has_already_voted(ps[p], author) THEN Outcome("return", "", p)
    ELSE Outcome("add_vote", "", p)

\* Lines 60-72: the vote on the poll the command has found.
VoteOnPoll(ps, p, author, choice) ==
    IF ~isdigit(choice) THEN Outcome("InvalidArgumentsError", "not a valid number", p)
    ELSE IF IntRaises(choice) THEN Outcome("ValueError", "int", p)
    ELSE IF ~is_valid_vote(ps[p], int(choice))
         THEN Outcome("reply", "not a valid choice id", p)
    ELSE IF has_already_voted(ps[p], author) THEN Outcome("return", "", p)
    ELSE Outcome("add_vote", "", p)

\* A vote command that raises when the poll id is missing.
VotePollByIdRaising(ps, ch, args) ==
    IF Len(args) # 2
    THEN Outcome("InvalidArgumentsError", "multiple polls active", 0)
    ELSE IF CastRaises(args[2])
    THEN Outcome("InvalidArgumentsError", "not a valid number", 0)
    ELSE IF IntRaises(args[2]) THEN Outcome("ValueError", "int", 0)
    ELSE IF get_channel_poll_by_id(ps, ch, int(args[2])) = 0
    THEN Outcome("InvalidArgumentsError", "Could not find poll by ID", 0)
    ELSE Outcome("poll", "", get_channel_poll_by_id(ps, ch, int(args[2])))

\* Lines 48-58: the poll the command is about, when several are active.
VotePollById(ps, ch, args) ==
    IF Len(args) # 2
    THEN Outcome("reply", "multiple polls active", 0)
    ELSE IF CastRaises(args[2])
    THEN Outcome("InvalidArgumentsError", "not a valid number", 0)
    ELSE IF IntRaises(args[2]) THEN Outcome("ValueError", "int", 0)
    ELSE IF get_channel_poll_by_id(ps, ch, int(args[2])) = 0
    THEN Outcome("InvalidArgumentsError", "Could not find poll by ID", 0)
    ELSE Outcome("poll", "", get_channel_poll_by_id(ps, ch, int(args[2])))

\* Lines 35-73: what cmd_vote does: it raises, replies, returns without a
\* word, or adds the vote to a poll.
Vote(ps, ch, author, args) ==
    IF Len(args) = 0
    THEN Outcome("InvalidArgumentsError", "missing required vote arguments", 0)
    ELSE LET count == get_active_channel_poll_count(ps, ch)
             found == IF count = 1
                      THEN Outcome("poll", "", get_active_channel_polls(ps, ch)[1])
                      ELSE VotePollById(ps, ch, args)
         IN  IF count = 0 THEN Outcome("reply", "NOT any active polls", 0)
             ELSE IF found.kind # "poll" THEN found
             ELSE VoteOnPoll(ps, found.poll, author, args[1])

\* What a command did, and the message and the state it was given.
NoResult == [cmd |-> "none", kind |-> "none", reason |-> "", poll |-> 0,
             channel |-> "", author |-> "", args |-> <<>>, before |-> <<>>]

CommandResult(cmd, out, ch, author, args, before) ==
    [cmd |-> cmd, kind |-> out.kind, reason |-> out.reason, poll |-> out.poll,
     channel |-> ch, author |-> author, args |-> args, before |-> before]

\* The command dispatcher runs one command at a time.
NoCommand == last = NoResult

\* No listpolls has replied; a reply is the text it sent.
NoListing == [sent |-> FALSE, text |-> <<>>]

cmd_vote(ch, author, args) ==
    LET out == Vote(polls, ch, author, args)
    IN  /\ NoCommand
        /\ polls' = IF out.kind = "add_vote"
                    THEN [polls EXCEPT ![out.poll] =
                             add_vote(polls[out.poll], author, int(args[1]))]
                    ELSE polls
        /\ last' = CommandResult("vote", out, ch, author, args, polls)
        /\ msgtext' = <<>>
        /\ listing' = NoListing
        /\ UNCHANGED modVars

(***************************************************************************)
(* startpoll (lines 13-28, 114-131).                                       *)
(***************************************************************************)
WordChars == {"q", "a", "b"} \cup AsciiDigits

\* Line 3, [\w\d\s,]: the characters of the options group.
OptionChars == WordChars \cup {" ", ","}

\* Line 3, [0-9.]: the characters of the time group.
TimeChars == AsciiDigits \cup {"."}

\* The length of the longest run of characters of `class` that starts at
\* position i.
RECURSIVE RunLength(_, _, _)
RunLength(str, i, class) ==
    IF i > Len(str) \/ str[i] \notin class THEN 0
    ELSE 1 + RunLength(str, i + 1, class)

\* str.strip()
RECURSIVE strip(_)
strip(str) ==
    IF str # <<>> /\ str[1] = " " THEN strip(Tail(str))
    ELSE IF str # <<>> /\ str[Len(str)] = " " THEN strip(SubSeq(str, 1, Len(str) - 1))
    ELSE str

\* str.split(sep)
RECURSIVE split(_, _)
split(str, sep) ==
    LET ks == {k \in DOMAIN str : str[k] = sep}
    IN  IF ks = {} THEN <<str>>
        ELSE LET k == CHOOSE j \in ks : \A i \in ks : j <= i
             IN  <<SubSeq(str, 1, k - 1)>> \o split(SubSeq(str, k + 1, Len(str)), sep)

\* str.split(): the words of a message.
RECURSIVE words(_)
words(str) ==
    LET t == strip(str)
        n == RunLength(t, 1, WordChars \cup {"[", "]", ",", ".", "-", "sup2"})
    IN  IF t = <<>> THEN <<>>
        ELSE <<SubSeq(t, 1, n)>> \o words(SubSeq(t, n + 1, Len(t)))

\* Line 3, RE_POLL_INFO.search: the positions of a "[" that a title comes
\* before and that options and a "]" follow.
OptionStarts(str) ==
    {i \in 2 .. Len(str) :
        /\ str[i] = "["
        /\ RunLength(str, i + 1, OptionChars) > 0
        /\ i + RunLength(str, i + 1, OptionChars) + 1 <= Len(str)
        /\ str[i + RunLength(str, i + 1, OptionChars) + 1] = "]"}

\* Lines 127-131, _try_parse_float: float(value) is a number for digits
\* with at most one point among them.
FloatRaises(value) ==
    \/ \A k \in DOMAIN value : value[k] = "."
    \/ Cardinality({k \in DOMAIN value : value[k] = "."}) > 1

\* The value of float(value), in tenths, for a value without a point or
\* with one digit after its point.
ParseTenths(value) ==
    LET ks == {k \in DOMAIN value : value[k] = "."}
    IN  IF ks = {} THEN 10 * int(value)
        ELSE LET k == CHOOSE j \in ks : TRUE
             IN  10 * int(SubSeq(value, 1, k - 1)) + int(SubSeq(value, k + 1, Len(value)))

DefaultSeconds == 300

\* Lines 114-124, _parse_poll_data: None, or the title, the choices and
\* the seconds (in tenths) of the poll. The title group is greedy: it ends
\* at the last "[" that starts a match.
NoPollData == [parsed |-> FALSE, title |-> <<>>, choices |-> <<>>, seconds |-> 0]

parse_poll_data(text) ==
    IF OptionStarts(text) = {} THEN NoPollData
    ELSE LET i == CHOOSE j \in OptionStarts(text) : \A k \in OptionStarts(text) : k <= j
             n == RunLength(text, i + 1, OptionChars)
             options == SubSeq(text, i + 1, i + n)
             afterBracket == i + n + 2
             t == afterBracket + RunLength(text, afterBracket, {" "})
             time == SubSeq(text, t, t + RunLength(text, t, TimeChars) - 1)
             parts == split(options, ",")
         IN  [parsed |-> TRUE,
              title |-> strip(SubSeq(text, 1, i - 1)),
              choices |-> [k \in DOMAIN parts |-> strip(parts[k])],
              seconds |-> IF FloatRaises(time) THEN DefaultSeconds ELSE ParseTenths(time)]

\* A startpoll that does not count its arguments.
StartPollNoCountTest(text) ==
    IF ~parse_poll_data(text).parsed
    THEN Outcome("InvalidArgumentsError", "improperly formatted", 0)
    ELSE Outcome("start", "", 0)

\* Lines 17-28: what cmd_start_poll does.
StartPoll(text) ==
    IF Len(words(text)) < 2
    THEN Outcome("InvalidArgumentsError", "missing required poll arguments", 0)
    ELSE IF ~parse_poll_data(text).parsed
    THEN Outcome("InvalidArgumentsError", "improperly formatted", 0)
    ELSE Outcome("start", "", 0)

\* The text of a startpoll message, after the command's name.
Texts == {
    <<"q", " ", "[", "a", ",", "b", "]">>,
    <<"q", " ", "[", "a", ",", " ", "b", "]", " ", "6">>,
    <<"q", " ", "a">>,
    <<"[", "a", ",", "b", "]">> }

cmd_start_poll(ch, author, message) ==
    LET out == StartPoll(message)
        data == parse_poll_data(message)
    IN  /\ NoCommand
        /\ out.kind = "start" => Len(polls) < MaxPolls
        /\ polls' = IF out.kind = "start"
                    THEN Append(polls, NewPoll(ch, data.title, data.choices))
                    ELSE polls
        /\ last' = CommandResult("startpoll",
                                   [out EXCEPT !.poll = IF out.kind = "start"
                                                        THEN Len(polls) + 1 ELSE 0],
                                   ch, author, words(message), polls)
        /\ msgtext' = message
        /\ listing' = NoListing
        /\ UNCHANGED modVars

\* The poll's time is over: it is no longer active.
PollEnd(p) ==
    /\ NoCommand
    /\ p \in PollIds
    /\ polls[p].active
    /\ polls' = [polls EXCEPT ![p] = EndedPoll]
    /\ UNCHANGED <<last, msgtext, listing, modVars>>

\* The command has ended and the dispatcher goes on.
CommandDone ==
    /\ ~NoCommand
    /\ last' = NoResult
    /\ msgtext' = <<>>
    /\ listing' = NoListing
    /\ UNCHANGED <<polls, modVars>>

(***************************************************************************)
(* listpolls and pollinfo (lines 82-111).                                  *)
(***************************************************************************)
\* str(n) for a natural number.
RECURSIVE str(_)
str(n) ==
    LET digit == CHOOSE c \in AsciiDigits : DigitValue(c) = n % 10
    IN  IF n < 10 THEN <<digit>> ELSE Append(str(n \div 10), digit)

\* sep.join(strs)
RECURSIVE join(_, _)
join(sep, strs) ==
    IF strs = <<>> THEN <<>>
    ELSE IF Len(strs) = 1 THEN strs[1]
    ELSE strs[1] \o sep \o join(sep, Tail(strs))

\* Line 84, f'{poll.id} -> "{poll.title}"'.
PollEntry(ps, p) == str(p) \o <<" ", "-", ">", " ", "\"">> \o ps[p].title \o <<"\"">>

\* A listpolls that lists the active polls of every channel.
ListPollsOfAnyChannel(ps, ch) ==
    LET active == SelectSeq([k \in DOMAIN ps |-> k], LAMBDA k : ps[k].active)
    IN  join(<<" ", "|", " ">>, [k \in DOMAIN active |-> PollEntry(ps, active[k])])

\* Line 84: the text cmd_list_polls replies with.
ListPolls(ps, ch) ==
    LET active == get_active_channel_polls(ps, ch)
    IN  join(<<" ", "|", " ">>, [k \in DOMAIN active |-> PollEntry(ps, active[k])])

cmd_list_polls(ch, author, args) ==
    /\ NoCommand
    /\ last' = CommandResult("listpolls", Outcome("reply", "listing", 0),
                               ch, author, args, polls)
    /\ listing' = [sent |-> TRUE, text |-> ListPolls(polls, ch)]
    /\ msgtext' = <<>>
    /\ UNCHANGED <<polls, modVars>>

\* A pollinfo that hands any poll id to int().
PollInfoNoDigitTest(ps, ch, args) ==
    LET count == get_active_channel_poll_count(ps, ch)
    IN  IF count = 0 THEN Outcome("reply", "not any polls active", 0)
        ELSE IF count > 1 /\ args = <<>>
        THEN Outcome("InvalidArgumentsError", "multiple polls are running", 0)
        ELSE IF count = 1
        THEN Outcome("reply", "POLL INFO", get_active_channel_polls(ps, ch)[1])
        ELSE IF IntRaises(args[1]) THEN Outcome("ValueError", "int", 0)
        ELSE IF get_channel_poll_by_id(ps, ch, int(args[1])) = 0
        THEN Outcome("InvalidArgumentsError", "could not find any poll by ID", 0)
        ELSE Outcome("reply", "POLL INFO", get_channel_poll_by_id(ps, ch, int(args[1])))

\* Lines 88-111: what cmd_poll_info does: it raises, or replies that no
\* poll is active, or replies with the data of the poll it found.
PollInfo(ps, ch, args) ==
    LET count == get_active_channel_poll_count(ps, ch)
    IN  IF count = 0 THEN Outcome("reply", "not any polls active", 0)
        ELSE IF count > 1 /\ args = <<>>
        THEN Outcome("InvalidArgumentsError", "multiple polls are running", 0)
        ELSE IF count = 1
        THEN Outcome("reply", "POLL INFO", get_active_channel_polls(ps, ch)[1])
        ELSE IF ~isdigit(args[1])
        THEN Outcome("InvalidArgumentsError", "not valid number", 0)
        ELSE IF IntRaises(args[1]) THEN Outcome("ValueError", "int", 0)
        ELSE IF get_channel_poll_by_id(ps, ch, int(args[1])) = 0
        THEN Outcome("InvalidArgumentsError", "could not find any poll by ID", 0)
        ELSE Outcome("reply", "POLL INFO", get_channel_poll_by_id(ps, ch, int(args[1])))

cmd_poll_info(ch, author, args) ==
    /\ NoCommand
    /\ last' = CommandResult("pollinfo", PollInfo(polls, ch, args),
                               ch, author, args, polls)
    /\ msgtext' = <<>>
    /\ listing' = NoListing
    /\ UNCHANGED <<polls, modVars>>

\* The texts of the startpoll messages of QuerySpec: two polls of different
\* titles, a text of one word, a text without brackets, and one without a
\* title.
QueryTexts == {
    <<"q", " ", "[", "a", ",", "b", "]">>,
    <<"a", " ", "b", " ", "[", "q", ",", " ", "a", "]", " ", "6">>,
    <<"q", "[", "a", ",", "b", "]">>,
    <<"q", " ", "a">>,
    <<"[", "a", ",", "b", "]", " ", "6">> }

\* The arguments of a command, the words after its name: a choice id, a
\* poll id, and one more.
ArgStrings == {<<"1">>, <<"2">>, <<"3">>, <<"-", "1">>, <<"1", ".", "5">>, <<"sup2">>}

PollIdStrings == {<<"1">>, <<"2">>, <<"3">>, <<"-", "1">>, <<"sup2">>}

ArgLists ==
    {<<>>} \cup {<<a>> : a \in ArgStrings}
           \cup {<<a, b>> : a \in ArgStrings, b \in PollIdStrings}
           \cup {<<a, <<"1">>, <<"1">> >> : a \in {<<"1">>, <<"-", "1">>}}

\* The vote messages of the second voter: votes for the first choice, and
\* for a choice no poll has.
OtherArgLists ==
    {<< <<"1">> >>, << <<"3">> >>} \cup {<< <<"1">>, b>> : b \in {<<"1">>, <<"2">>, <<"3">>}}

VoteArgLists(author) == IF author = "alice" THEN ArgLists ELSE OtherArgLists

\* The arguments of pollinfo: a poll id, and one more.
InfoArgLists ==
    {<<>>} \cup {<<a>> : a \in PollIdStrings} \cup {<<<<"2">>, <<"1">> >>}

(***************************************************************************)
(* The specifications of the registry and of the dispatch.                 *)
(***************************************************************************)
NoDispatch ==
    /\ pc = "idle"
    /\ event = "on_connected"
    /\ it = NoIter
    /\ cur = 0
    /\ running = {}
    /\ invoked = <<>>
    /\ raisedBy = {}
    /\ exc = "none"
    /\ hung = FALSE
    /\ muts = <<>>
    /\ stayed = {}

PollInit ==
    /\ polls = <<>>
    /\ last = NoResult
    /\ msgtext = <<>>
    /\ listing = NoListing

\* Line 98: the registry is empty when the module is loaded. The mods are
\* any objects: their properties report anything.
ModInit ==
    /\ mods = <<>>
    /\ can_register \in [Mods -> BOOLEAN]
    /\ can_unregister \in [Mods -> BOOLEAN]
    /\ call = NoCall
    /\ load = NoLoad
    /\ NoDispatch
    /\ PollInit

\* Lines 22-36: mods that keep the properties of the base class.
DefaultModInit ==
    /\ mods = <<>>
    /\ can_register = [m \in Mods |-> TRUE]
    /\ can_unregister = [m \in Mods |-> TRUE]
    /\ call = NoCall
    /\ load = NoLoad
    /\ NoDispatch
    /\ PollInit

\* Lines 22-36: mods that override can_register and keep the can_unregister
\* of the base class.
LoadInit ==
    /\ mods = <<>>
    /\ can_register \in [Mods -> BOOLEAN]
    /\ can_unregister = [m \in Mods |-> TRUE]
    /\ call = NoCall
    /\ load = NoLoad
    /\ NoDispatch
    /\ PollInit

RegistryNext ==
    \/ \E m \in Mods : register_mod(m, "other")
    \/ \E m \in Mods : unregister_mod(m, "other")

ModNext ==
    \/ \E m \in Mods, who \in {"hook", "other"} : register_mod(m, who)
    \/ \E m \in Mods, who \in {"hook", "other"} : unregister_mod(m, who)
    \/ \E e \in Events : trigger_mod_event(e)
    \/ LoopNext
    \/ HookEnd
    \/ HookHang
    \/ Finish

PollNext ==
    \/ \E ch \in Channels, author \in Voters, text \in Texts : cmd_start_poll(ch, author, text)
    \/ \E ch \in Channels, author \in Voters :
          \E args \in VoteArgLists(author) : cmd_vote(ch, author, args)
    \/ \E p \in PollIds : PollEnd(p)
    \/ CommandDone

LoadNext ==
    \/ \E dir \in Directories : load_mods_from_directory(dir)
    \/ \E m \in Mods : register_mod(m, "other")
    \/ \E m \in Mods : unregister_mod(m, "other")

\* The registry and the loader, with mods that report any can_register.
LoadSpec == LoadInit /\ [][LoadNext]_vars

QueryNext ==
    \/ \E ch \in Channels, author \in Voters, message \in QueryTexts :
          cmd_start_poll(ch, author, message)
    \/ \E ch \in Channels, author \in Voters : cmd_list_polls(ch, author, <<>>)
    \/ \E ch \in Channels, author \in Voters, args \in InfoArgLists :
          cmd_poll_info(ch, author, args)
    \/ \E p \in PollIds : PollEnd(p)
    \/ CommandDone

\* The commands that start, list and show polls; no vote is cast.
QuerySpec == DefaultModInit /\ [][QueryNext]_vars

\* The poll commands; no mod is registered.
PollSpec == DefaultModInit /\ [][PollNext]_vars

\* The registry alone, with mods of any properties.
RegistrySpec == ModInit /\ [][RegistryNext]_vars

\* The registry and the dispatch, with mods of the default properties.
DispatchSpec == DefaultModInit /\ [][ModNext]_vars

\* The registry and the dispatch, with mods of any properties.
ModSpec == ModInit /\ [][ModNext]_vars

(***************************************************************************)
(* Properties of the registry and of the dispatch.                         *)
(***************************************************************************)
Done == pc \in {"returned", "raised"}

Range(seq) == {seq[k] : k \in DOMAIN seq}

\* C1: when a dispatch during which nothing changed the registry has ended,
\* and no hook raised an exception outside the Exception hierarchy, it has
\* returned to its caller (no exception of a hook was propagated) and it
\* has called the hook of every registered mod exactly once, in the
\* registry's order, the mods whose hook raised and the mods that lack the
\* hook included.
C1_HookExceptionContained ==
    (Done /\ muts = <<>> /\ exc # "BaseException")
        => pc = "returned" /\ invoked = Live(mods)

\* A dispatch over two mods has returned; the hook of the first raised and
\* the hook of the second was called after it.
C1_Witness ==
    /\ pc = "returned"
    /\ muts = <<>>
    /\ Len(invoked) = 2
    /\ invoked[1] \in raisedBy
    /\ invoked[2] \notin raisedBy

\* C2: whatever the hooks do, calls of register_mod and unregister_mod
\* included, a dispatch that no other code interfered with returns normally
\* and calls the hook of every mod that stayed registered throughout.
C2_HookCannotBreakDispatch ==
    (Done /\ "other" \notin Range(muts) /\ exc # "BaseException")
        => pc = "returned" /\ stayed \subseteq Range(invoked)

\* C3: register_mod of a mod whose name is registered returns False, leaves
\* the registry as it was and calls no register(); and the registry never
\* holds two mods of one name.
C3_DuplicateNameRefused ==
    /\ (call.op = "register_mod" /\ call.nameWasIn)
          => /\ call.result = "False"
             /\ call.added = {}
             /\ call.removed = {}
             /\ call.callback = 0
    /\ \A j, k \in DOMAIN mods :
          (mods[j] # 0 /\ mods[k] # 0 /\ j # k) => ModName(mods[j]) # ModName(mods[k])

\* register_mod of an instance that may be registered, while another
\* instance of its name is registered.
C3_Witness ==
    /\ call.op = "register_mod"
    /\ call.nameWasIn
    /\ ~call.wasIn
    /\ can_register[call.mod]
    /\ Len(Live(mods)) = 2

\* C4: unregister_mod of an instance that is not registered returns False,
\* leaves the registry as it was and calls no unregister().
C4_UnregisterAbsent ==
    (call.op = "unregister_mod" /\ ~call.wasIn)
        => /\ call.result = "False"
           /\ call.removed = {}
           /\ call.callback = 0

\* C5: register_mod never inserts a mod that reports can_register = false,
\* no unregister_mod call removes a mod that reports can_unregister = false,
\* and a call refused for its flag returns False, leaves the registry as it
\* was and runs no lifecycle callback.
C5_FlagsGateRegistry ==
    /\ (call.op = "register_mod" /\ ~can_register[call.mod])
          => /\ call.result = "False"
             /\ call.added = {}
             /\ call.removed = {}
             /\ call.callback = 0
    /\ (call.op = "unregister_mod" /\ ~can_unregister[call.mod])
          => /\ call.result = "False"
             /\ call.added = {}
             /\ call.removed = {}
             /\ call.callback = 0
    /\ \A m \in LiveSet(mods) : can_register[m]
    /\ call.op = "unregister_mod" => \A m \in call.removed : can_unregister[m]

\* C10: the hooks of a dispatch run one after another in the registry's
\* order: the loop takes the next mod only when no hook is in progress, at
\* most one hook is in progress, and it is the hook called last; while
\* nothing changed the registry the hooks called are the first mods of the
\* registry, in its order; and once a hook hangs, no other hook is called
\* and the dispatch does not end.
C10_HooksSequential ==
    /\ [](/\ Cardinality(running) <= 1
          /\ pc = "loop" => running = {}
          /\ running # {} => /\ pc = "hook"
                             /\ invoked # <<>>
                             /\ running = {invoked[Len(invoked)]}
          /\ (muts = <<>> /\ pc \in {"loop", "hook", "returned"})
                => /\ Len(invoked) <= Len(Live(mods))
                   /\ invoked = SubSeq(Live(mods), 1, Len(invoked))
          /\ hung => pc = "hook" /\ running # {})
    /\ [][hung => hung' /\ pc' = "hook" /\ invoked' = invoked /\ running' = running]_vars

\* The second hook of a dispatch is in progress, the first has finished.
C10_Witness ==
    /\ pc = "hook"
    /\ Len(invoked) = 2
    /\ running = {invoked[2]}

\* C11: when other code of the event loop calls register_mod or
\* unregister_mod while a dispatch is suspended at a hook's await, and no
\* hook does, the dispatch still returns normally and calls the hook of
\* every mod that stayed registered throughout.
C11_NoRaceOnRegistry ==
    (Done /\ muts # <<>> /\ "hook" \notin Range(muts) /\ exc # "BaseException")
        => pc = "returned" /\ stayed \subseteq Range(invoked)

\* C17: the lifecycle callbacks mirror the registry. A call whose callback
\* returns normally runs a callback exactly when it returns True, and runs
\* it on the instance whose membership the call changed: register_mod runs
\* register() on the instance it put into the registry, which was not in
\* it, and unregister_mod runs unregister() on the instance it took out,
\* which was in it. The registry changes in these calls only, so the
\* callbacks of an instance alternate, beginning with register(), and the
\* instance is registered exactly when its last callback was register().
C17_CallbacksMirrorMembership ==
    (call.op # "none" /\ call.result # "raised") =>
        /\ call.callback # 0 <=> call.result = "True"
        /\ call.result = "False" => call.added = {} /\ call.removed = {}
        /\ (call.op = "register_mod" /\ call.result = "True")
              => /\ call.added = {call.callback}
                 /\ call.removed = {}
                 /\ ~call.wasIn
        /\ (call.op = "unregister_mod" /\ call.result = "True")
              => /\ call.removed = {call.callback}
                 /\ call.added = {}
                 /\ call.wasIn

\* C18: the result of register_mod agrees with the registry, also when the
\* mod's register() raises: the call has put the mod into the registry if
\* and only if it returned True, and a call that did not return True left
\* the registry as it was.
C18_ResultAgreesWithRegistry ==
    call.op = "register_mod" =>
        /\ call.mod \in call.added <=> call.result = "True"
        /\ call.result # "True" => call.added = {} /\ call.removed = {}

(***************************************************************************)
(* Properties of the loader.                                               *)
(***************************************************************************)
\* The places of the Mod subclasses in the modules of a directory: file and
\* position, in the order of the scan.
Occurrences(dir) ==
    UNION {{<<f, k>> : k \in {j \in DOMAIN dir[f].objects :
                                    dir[f].objects[j].kind = "subclass"}} :
           f \in DOMAIN dir}

ClassAt(dir, place) == dir[place[1]].objects[place[2]].of

Earlier(p, q) == p[1] < q[1] \/ (p[1] = q[1] /\ p[2] < q[2])

\* The Mod subclasses found among the definitions of the scanned files.
FoundIn(dir) == {ClassAt(dir, place) : place \in Occurrences(dir)}

Loaded == load.result = "returned"

\* C14, as claimed: when load_mods_from_directory has completed, every Mod
\* subclass found in the scanned files has been instantiated and an
\* instance of it is in the registry, and nothing but Mod subclasses was
\* instantiated or registered.
C14_Claimed ==
    Loaded =>
        /\ \A c \in FoundIn(load.dir) :
              c \in Range(load.instantiated) /\ c \in LiveSet(mods)
        /\ Range(load.instantiated) \subseteq Mods
        /\ LiveSet(mods) \subseteq Mods

\* C14, amended: when load_mods_from_directory has completed, every Mod
\* subclass found in the scanned files has been instantiated, once for each
\* place it was found at, and nothing else was; an instance of a found
\* class is in the registry exactly when one was registered before the
\* load, or the class reports can_register and no mod of its name was
\* registered before the load or found earlier in the scan with
\* can_register; the load registers found classes only and removes nothing.
C14_LoadRegisters ==
    Loaded =>
        /\ Range(load.instantiated) = FoundIn(load.dir)
        /\ Len(load.instantiated) = Cardinality(Occurrences(load.dir))
        /\ load.before \subseteq LiveSet(mods)
        /\ LiveSet(mods) \ load.before \subseteq FoundIn(load.dir)
        /\ \A c \in FoundIn(load.dir) :
              c \in LiveSet(mods) <=>
                \/ c \in load.before
                \/ /\ can_register[c]
                   /\ \A b \in load.before : ModName(b) # ModName(c)
                   /\ \E p \in Occurrences(load.dir) :
                        /\ ClassAt(load.dir, p) = c
                        /\ \A q \in Occurrences(load.dir) :
                              (/\ ClassAt(load.dir, q) # c
                               /\ ModName(ClassAt(load.dir, q)) = ModName(c)
                               /\ can_register[ClassAt(load.dir, q)])
                                 => Earlier(p, q)

\* A load into an empty registry found two classes of one name that both
\* report can_register: the first is registered, the second is not.
C14_Witness ==
    /\ Loaded
    /\ load.before = {}
    /\ {1, NumMods} \subseteq FoundIn(load.dir)
    /\ can_register[1] /\ can_register[NumMods]
    /\ 1 \in LiveSet(mods)
    /\ NumMods \notin LiveSet(mods)

(***************************************************************************)
(* Properties of the vote command.                                         *)
(***************************************************************************)
\* The vote command of the last step: the message it was given and the
\* polls it found.
Voted == last.cmd = "vote" /\ Len(last.args) >= 1

Choice == last.args[1]

CountBefore == get_active_channel_poll_count(last.before, last.channel)

\* The voter had voted on the poll the command was about.
HadVoted == last.poll # 0 /\ has_already_voted(last.before[last.poll], last.author)

\* The choice id is a decimal number that the poll takes for a choice.
ChoiceValid ==
    /\ isdigit(Choice)
    /\ ~IntRaises(Choice)
    /\ last.poll # 0
    /\ is_valid_vote(last.before[last.poll], int(Choice))

\* The second argument is the decimal id of an active poll of the channel.
PollIdKnown ==
    /\ Len(last.args) = 2
    /\ isdigit(last.args[2])
    /\ ~IntRaises(last.args[2])
    /\ get_channel_poll_by_id(last.before, last.channel, int(last.args[2])) # 0

\* The message names a poll: the only active one, or one of several by id.
HasTarget == CountBefore = 1 \/ (CountBefore > 1 /\ PollIdKnown)

Rejected(reason) == last.kind = "InvalidArgumentsError" /\ last.reason = reason

\* C6: a vote command changes no recorded vote; the vote it records is the
\* vote of a voter who had none on that poll, and is the choice of that
\* command. So a voter's recorded vote on a poll is the choice of the first
\* vote the command accepted from that voter.
C6_FirstVoteKept ==
    last.cmd = "vote" =>
        \A p \in DOMAIN polls : \A v \in Voters :
            /\ last.before[p].votes[v] # 0 => polls[p].votes[v] = last.before[p].votes[v]
            /\ (last.before[p].votes[v] = 0 /\ polls[p].votes[v] # 0)
                 => /\ last.kind = "add_vote"
                    /\ p = last.poll
                    /\ v = last.author
                    /\ polls[p].votes[v] = int(Choice)

\* A voter whose vote is recorded votes for another valid choice.
C6_Witness ==
    /\ Voted
    /\ HadVoted
    /\ ChoiceValid
    /\ polls[last.poll].votes[last.author] # int(Choice)

\* C7, as claimed: a vote command of a voter who has voted on the poll it
\* is about is ignored without a word, for every choice id: no reply, no
\* error, the votes as they were.
C7_Claimed ==
    (Voted /\ HadVoted) => last.kind = "return" /\ polls = last.before

\* C7, amended: a vote command of a voter who has voted on the poll it is
\* about leaves the votes as they were, for every choice id; it is ignored
\* without a word when the choice id is a valid choice of the poll, it is
\* rejected when the choice id is not a digit string, and it is answered
\* with the valid choices when the choice id is a number that is no choice.
C7_RevoteIgnored ==
    (Voted /\ HadVoted) =>
        /\ polls = last.before
        /\ ChoiceValid => last.kind = "return"
        /\ ~isdigit(Choice) => Rejected("not a valid number")
        /\ (isdigit(Choice) /\ ~IntRaises(Choice) /\ ~ChoiceValid)
             => last.kind = "reply" /\ last.reason = "not a valid choice id"

\* A voter who has voted on one of two active polls votes on it again, by
\* its id, for a valid choice.
C7_Witness ==
    /\ Voted
    /\ HadVoted
    /\ ChoiceValid
    /\ CountBefore = 2
    /\ last.kind = "return"

\* C8, as claimed: a vote command whose choice id is not a digit string is
\* rejected as not a valid number and records no vote, whatever the number
\* of active polls and the other arguments.
C8_Claimed ==
    (Voted /\ ~isdigit(Choice))
        => Rejected("not a valid number") /\ polls = last.before

\* C8, amended: a vote command whose choice id is not a digit string
\* records no vote; it is rejected as not a valid number when the message
\* names a poll: when one poll is active in the channel, or several are and
\* the only other argument is the id of one of them.
C8_NonDigitChoiceRejected ==
    (Voted /\ ~isdigit(Choice)) =>
        /\ polls = last.before
        /\ HasTarget => Rejected("not a valid number") /\ last.poll # 0

\* A choice id that is not a digit string, for one of two active polls.
C8_Witness ==
    /\ Voted
    /\ ~isdigit(Choice)
    /\ CountBefore = 2
    /\ PollIdKnown
    /\ Rejected("not a valid number")

\* C9, as claimed: with several polls active, the vote command raises the
\* invalid-arguments error when the poll id is absent, when it is not a
\* digit string, and when no active poll of the channel has that id, and
\* records no vote; with one poll active, that poll is the target.
C9_Claimed ==
    /\ (Voted /\ CountBefore > 1
          /\ \/ Len(last.args) = 1
             \/ Len(last.args) = 2 /\ ~isdigit(last.args[2])
             \/ Len(last.args) = 2 /\ ~IntRaises(last.args[2]) /\ ~PollIdKnown)
         => last.kind = "InvalidArgumentsError" /\ polls = last.before
    /\ (Voted /\ CountBefore = 1)
         => last.poll = get_active_channel_polls(last.before, last.channel)[1]

\* C9, amended: with several polls active, the vote command answers with a
\* request for the poll id when it is not given exactly two arguments; it
\* raises the invalid-arguments error when the poll id is not a digit
\* string and when it is a decimal number that is the id of no active poll
\* of the channel; it records no vote in these cases. With one poll active,
\* that poll is the target, whatever the other arguments.
C9_PollIdResolution ==
    /\ (Voted /\ CountBefore > 1 /\ Len(last.args) # 2)
         => /\ last.kind = "reply"
            /\ last.reason = "multiple polls active"
            /\ polls = last.before
    /\ (Voted /\ CountBefore > 1 /\ Len(last.args) = 2 /\ ~isdigit(last.args[2]))
         => Rejected("not a valid number") /\ polls = last.before
    /\ (Voted /\ CountBefore > 1 /\ Len(last.args) = 2 /\ isdigit(last.args[2])
          /\ ~IntRaises(last.args[2]) /\ ~PollIdKnown)
         => Rejected("Could not find poll by ID") /\ polls = last.before
    /\ (Voted /\ CountBefore = 1)
         => last.poll = get_active_channel_polls(last.before, last.channel)[1]

\* With two polls active, a vote without a poll id.
C9_Witness ==
    /\ Voted
    /\ CountBefore = 2
    /\ Len(last.args) = 1
    /\ last.kind = "reply"

\* C16: every vote the vote command records is a choice the target poll
\* accepts, recorded for the author on a poll that is active in the
\* channel of the message, and the command changes nothing else; a vote
\* command that names a poll and whose choice id is a decimal number the
\* poll does not accept is answered with the valid choices and leaves the
\* votes of every poll as they were.
C16_OnlyValidVotesRecorded ==
    last.cmd = "vote" =>
        /\ \A p \in DOMAIN polls : \A v \in Voters :
              polls[p].votes[v] # last.before[p].votes[v]
                => /\ p = last.poll
                   /\ v = last.author
                   /\ last.before[p].active
                   /\ last.before[p].channel = last.channel
                   /\ polls[p].votes[v] \in 1 .. Len(last.before[p].choices)
                   /\ isdigit(Choice) /\ ~IntRaises(Choice)
                   /\ polls[p].votes[v] = int(Choice)
        /\ last.kind = "add_vote" <=> polls # last.before
        /\ (Voted /\ HasTarget /\ isdigit(Choice) /\ ~IntRaises(Choice) /\ ~ChoiceValid)
              => /\ last.kind = "reply"
                 /\ last.reason = "not a valid choice id"
                 /\ polls = last.before

\* A voter who has not voted names one of two active polls and a choice id
\* the poll does not have.
C16_Witness ==
    /\ Voted
    /\ CountBefore = 2
    /\ PollIdKnown
    /\ ~HadVoted
    /\ Choice = <<"3">>
    /\ last.kind = "reply"

(***************************************************************************)
(* Properties of startpoll, listpolls and pollinfo.                        *)
(***************************************************************************)
\* The vote command given a choice id and the arguments of the pollinfo
\* command of the last step, on the polls that command found.
InfoAsked == last.cmd = "pollinfo" /\ Len(last.args) <= 1

VoteSame == Vote(last.before, last.channel, last.author, <<<<"1">>>> \o last.args)

\* C12, as claimed: for an absent, a non-digit, an unknown and a known poll
\* id, pollinfo and vote resolve the same poll, or both fail in the same
\* way: with a reply when no poll is active, with the invalid-arguments
\* error when several are.
C12_Claimed ==
    (InfoAsked /\ (last.args = <<>> \/ ~isdigit(last.args[1]) \/ ~IntRaises(last.args[1])))
        => /\ last.poll = VoteSame.poll
           /\ last.poll = 0
                => /\ last.kind = VoteSame.kind
                   /\ CountBefore = 0 => last.kind = "reply"
                   /\ CountBefore > 1 => last.kind = "InvalidArgumentsError"

\* C12, amended: pollinfo and vote resolve the same poll, the only active
\* poll of the channel or the active poll of the given id, or neither
\* resolves one. When neither does, both fail in the same way, with a
\* reply when no poll is active and with an error when several are and the
\* id is no digit string or the id of no active poll, but for the absent
\* id with several polls active: there pollinfo raises the
\* invalid-arguments error and vote replies with a request for the id.
C12_SameResolution ==
    InfoAsked =>
        /\ polls = last.before
        /\ last.poll = VoteSame.poll
        /\ last.poll # 0
             => /\ last.before[last.poll].active
                /\ last.before[last.poll].channel = last.channel
                /\ CountBefore > 1 => last.poll = int(last.args[1])
        /\ (last.poll = 0 /\ CountBefore > 1 /\ last.args = <<>>)
             => /\ last.kind = "InvalidArgumentsError"
                /\ VoteSame.kind = "reply"
                /\ VoteSame.reason = "multiple polls active"
        /\ (last.poll = 0 /\ ~(CountBefore > 1 /\ last.args = <<>>))
             => /\ last.kind = VoteSame.kind
                /\ CountBefore = 0 => last.kind = "reply"
                /\ CountBefore > 1
                     => last.kind = IF isdigit(last.args[1]) /\ IntRaises(last.args[1])
                                    THEN "ValueError" ELSE "InvalidArgumentsError"

\* With two polls active, pollinfo is given the id of the second and finds
\* it, as vote does.
C12_Witness ==
    /\ InfoAsked
    /\ CountBefore = 2
    /\ last.args = << <<"2">> >>
    /\ last.poll = 2
    /\ VoteSame.poll = 2

\* The startpoll command of the last step, and what its text parses to.
Started == last.cmd = "startpoll"

PollStarted(data) ==
    /\ last.kind = "start"
    /\ Len(polls) = Len(last.before) + 1
    /\ SubSeq(polls, 1, Len(last.before)) = last.before
    /\ polls[Len(polls)].channel = last.channel
    /\ polls[Len(polls)].title = data.title
    /\ polls[Len(polls)].choices = data.choices
    /\ polls[Len(polls)].active

NoPollStarted == last.kind = "InvalidArgumentsError" /\ polls = last.before

\* C13, as claimed: parsing alone decides what startpoll does: for a text
\* that parses, one poll of its title and choices is started; for a text
\* that does not, the invalid-arguments error is raised and no poll is
\* started.
C13_Claimed ==
    Started =>
        IF parse_poll_data(msgtext).parsed THEN PollStarted(parse_poll_data(msgtext))
        ELSE NoPollStarted

\* C13, amended: startpoll has two outcomes: for a message of at least two
\* words after the command's name whose text parses, one poll of its title
\* and choices is started; for any other, a text of one word that parses
\* included, the invalid-arguments error is raised and no poll is started.
C13_StartPollOutcomes ==
    Started =>
        IF Len(words(msgtext)) >= 2 /\ parse_poll_data(msgtext).parsed
        THEN PollStarted(parse_poll_data(msgtext))
        ELSE NoPollStarted

\* The text `a b [q, a] 6` has started a poll of the title `a b` and the
\* choices `q` and `a`.
C13_Witness ==
    /\ Started
    /\ msgtext = <<"a", " ", "b", " ", "[", "q", ",", " ", "a", "]", " ", "6">>
    /\ last.kind = "start"
    /\ polls[Len(polls)].title = <<"a", " ", "b">>
    /\ polls[Len(polls)].choices = << <<"q">>, <<"a">> >>

\* The parts of a string between the occurrences of a separator.
RECURSIVE SplitOn(_, _)
SplitOn(string, sep) ==
    LET ks == {k \in 1 .. Len(string) - Len(sep) + 1 :
                  SubSeq(string, k, k + Len(sep) - 1) = sep}
    IN  IF ks = {} THEN <<string>>
        ELSE LET k == CHOOSE j \in ks : \A i \in ks : j <= i
             IN  <<SubSeq(string, 1, k - 1)>>
                     \o SplitOn(SubSeq(string, k + Len(sep), Len(string)), sep)

\* The entries of the listing of the last step.
Entries == IF listing.text = <<>> THEN <<>> ELSE SplitOn(listing.text, <<" ", "|", " ">>)

\* An entry reads: id -> "title".
EntryId(entry) == int(SubSeq(entry, 1, RunLength(entry, 1, AsciiDigits)))

EntryRest(entry) == SubSeq(entry, RunLength(entry, 1, AsciiDigits) + 1, Len(entry))

\* C15: listpolls sends one reply: the entries `id -> "title"` of the polls
\* that are active in the channel of the message, one for each and none
\* for another poll, joined by ` | `; the reply is the empty string when
\* no poll is active in the channel.
C15_ListPollsReply ==
    last.cmd = "listpolls" =>
        LET active == {p \in DOMAIN last.before :
                          last.before[p].active /\ last.before[p].channel = last.channel}
        IN  /\ listing.sent
            /\ polls = last.before
            /\ active = {} <=> listing.text = <<>>
            /\ Len(Entries) = Cardinality(active)
            /\ {EntryId(Entries[k]) : k \in DOMAIN Entries} = active
            /\ \A k \in DOMAIN Entries :
                  /\ RunLength(Entries[k], 1, AsciiDigits) > 0
                  /\ EntryRest(Entries[k]) =
                        <<" ", "-", ">", " ", "\"">>
                            \o last.before[EntryId(Entries[k])].title \o <<"\"">>

\* A listing of two polls of the channel.
C15_Witness ==
    /\ last.cmd = "listpolls"
    /\ CountBefore = 2
    /\ Len(Entries) = 2
    /\ EntryId(Entries[1]) = 1
    /\ EntryId(Entries[2]) = 2

====
